---- MODULE Spec2Model ----
(***************************************************************************)
(* The two report scripts of m3n3sx/MASE, src/xx/mas3/live-fix/script.py   *)
(* and "script (1).py", as a state machine: one step per executed          *)
(* statement (a print, a for-loop head, an if test).  The sink is standard *)
(* output; a write the sink rejects raises, and nothing in either script   *)
(* catches it.                                                              *)
(*                                                                         *)
(* Strings are sequences of tokens.  A token is a single character where   *)
(* the code works on characters (the keys that go through upper() and      *)
(* replace()), a newline, a space of the indentation, a glyph, a colon, or *)
(* a whole phrase the code only copies.  A character outside ASCII is      *)
(* written by its code point, "U+2713".                                    *)
(***************************************************************************)
EXTENDS Integers, Sequences, FiniteSets, TLC

VARIABLES
    script,     \* which script runs: "script" (script.py), "script1" (script (1).py)
    doc,        \* the dictionaries script.py walks
    hashseed,   \* the interpreter's hash seed of this run, state outside the document
    run,        \* 1 for the first run, 2 for the second (a fresh sink each)
    prev,       \* what the first run left: its writes and how it ended
    pc,         \* the source line of the next statement
    ix,         \* the positions of the enclosing for loops, outermost first
    out,        \* the writes the sink accepted, in order
    attempts,   \* the number of writes handed to the sink
    status      \* "running", "done", "KeyError", "SinkWriteFailure"

vars == <<script, doc, hashseed, run, prev, pc, ix, out, attempts, status>>

----------------------------------------------------------------------------
(* Bounds of the model. *)

\* generated mappings hold at most this many entries
MaxEntries == 2

\* the sink may reject any of its first MaxFailAt writes
MaxFailAt == 6

Seeds == {0, 1}

----------------------------------------------------------------------------
(* Python values and the operations the scripts use on them. *)

Str(x) == [t |-> "str", s |-> <<x>>]
List(xs) == [t |-> "list", elems |-> xs]
Dict(kvs) == [t |-> "dict", items |-> kvs]
PyInt(k) == [t |-> "int", n |-> k]

\* n spaces of a format string
Sp(n) == [k \in 1..n |-> " "]

DigitChar(d) ==
    CASE d = 0 -> "0" [] d = 1 -> "1" [] d = 2 -> "2" [] d = 3 -> "3" [] d = 4 -> "4"
      [] d = 5 -> "5" [] d = 6 -> "6" [] d = 7 -> "7" [] d = 8 -> "8" [] d = 9 -> "9"

RECURSIVE Digits(_)
\* str(i) of a non-negative int
Digits(i) ==
    IF i < 10 THEN <<DigitChar(i)>> ELSE Digits(i \div 10) \o <<DigitChar(i % 10)>>

\* format(i, "2d"): right-justified in two columns
Pad2d(i) ==
    LET d == Digits(i) IN IF Len(d) < 2 THEN Sp(2 - Len(d)) \o d ELSE d

UpperChar(c) ==
    CASE c = "a" -> "A" [] c = "b" -> "B" [] c = "c" -> "C" [] c = "d" -> "D"
      [] c = "e" -> "E" [] c = "f" -> "F" [] c = "g" -> "G" [] c = "h" -> "H"
      [] c = "i" -> "I" [] c = "j" -> "J" [] c = "k" -> "K" [] c = "l" -> "L"
      [] c = "m" -> "M" [] c = "n" -> "N" [] c = "o" -> "O" [] c = "p" -> "P"
      [] c = "q" -> "Q" [] c = "r" -> "R" [] c = "s" -> "S" [] c = "t" -> "T"
      [] c = "u" -> "U" [] c = "v" -> "V" [] c = "w" -> "W" [] c = "x" -> "X"
      [] c = "y" -> "Y" [] c = "z" -> "Z" [] OTHER -> c

\* str.upper() of a string held as characters
Upper(s) == [k \in 1..Len(s) |-> UpperChar(s[k])]

\* str.replace(old, new) for one-character old and new
Replace(s, old, new) == [k \in 1..Len(s) |-> IF s[k] = old THEN new ELSE s[k]]

\* a walk in hash order: the order changes with the interpreter's seed
ItemsByHash(d, seed) ==
    IF seed = 0 THEN d.items ELSE [k \in 1..Len(d.items) |-> d.items[Len(d.items) + 1 - k]]

\* dict.items(): insertion order, whatever the hash seed
Items(d, seed) == d.items

\* the test `if d.get(key)`: an empty list counts as absent
HasKeyTruthy(d, key) ==
    \E n \in 1..Len(d.items) :
        /\ d.items[n][1] = key
        /\ (d.items[n][2].t = "list" => Len(d.items[n][2].elems) > 0)

\* key in d
HasKey(d, key) == \E n \in 1..Len(d.items) : d.items[n][1] = key

\* d[key], for a key d holds
GetItem(d, key) == d.items[CHOOSE n \in 1..Len(d.items) : d.items[n][1] = key][2]

\* isinstance(v, dict) and isinstance(v, list)
IsDict(v) == v.t = "dict"
IsList(v) == v.t = "list"

\* a walk over reversed(v)
IterReversed(v) == [k \in 1..Len(v.elems) |-> v.elems[Len(v.elems) + 1 - k]]

\* what a for loop over a list visits
Iter(v) == v.elems

\* {v} in an f-string
Format(v) ==
    CASE v.t = "str" -> v.s
      [] v.t = "int" -> Digits(v.n)
      [] OTHER -> <<"repr">>

----------------------------------------------------------------------------
(* The literal data of the two scripts. *)

\* script.py:3-116, live_preview_analysis

live_preview_analysis ==
    [current_files |-> [t |-> "dict", items |-> <<
            <<<<"simple-live-preview.js">>, [t |-> "dict", items |-> <<
                <<<<"size">>, [t |-> "str", s |-> <<"GU+0142U+00F3wny plik live preview">>]>>,
                <<<<"approach">>, [t |-> "str", s |-> <<"AJAX-based CSS injection">>]>>,
                <<<<"key_features">>, [t |-> "list", elems |-> <<[t |-> "str", s |-> <<"Real-time CSS generation via AJAX">>], [t |-> "str", s |-> <<"Direct CSS injection via <style> tag">>], [t |-> "str", s |-> <<"WordPress Color Picker integration">>], [t |-> "str", s |-> <<"Debounced updates (300ms)">>], [t |-> "str", s |-> <<"Field tracking przez regex pattern matching">>]>>]>>,
                <<<<"problems">>, [t |-> "list", elems |-> <<[t |-> "str", s |-> <<"AJAX dependency - slow">>], [t |-> "str", s |-> <<"Server roundtrip dla kaU+017Cdej zmiany">>], [t |-> "str", s |-> <<"Brak error handling dla failed requests">>], [t |-> "str", s |-> <<"Regex pattern matching prone to errors">>], [t |-> "str", s |-> <<"No rollback mechanism">>], [t |-> "str", s |-> <<"Hard-coded 300ms debounce">>], [t |-> "str", s |-> <<"Brak optimizacji dla bulk changes">>]>>]>>>>]>>,
            <<<<"simple-live-preview-minimal.js">>, [t |-> "dict", items |-> <<
                <<<<"size">>, [t |-> "str", s |-> <<"Alternatywna implementacja">>]>>,
                <<<<"approach">>, [t |-> "str", s |-> <<"CSS Variables direct injection">>]>>,
                <<<<"key_features">>, [t |-> "list", elems |-> <<[t |-> "str", s |-> <<"Direct CSS variable setting">>], [t |-> "str", s |-> <<"No server communication">>], [t |-> "str", s |-> <<"Instant updates (100ms debounce)">>], [t |-> "str", s |-> <<"Minimal dependency approach">>]>>]>>,
                <<<<"problems">>, [t |-> "list", elems |-> <<[t |-> "str", s |-> <<"Limited to CSS variables tylko">>], [t |-> "str", s |-> <<"No complex CSS generation">>], [t |-> "str", s |-> <<"Hardcoded variable naming convention">>], [t |-> "str", s |-> <<"No fallback dla older browsers">>], [t |-> "str", s |-> <<"Brak persistence bez save">>]>>]>>>>]>>,
            <<<<"mas-settings-form-handler.js">>, [t |-> "dict", items |-> <<
                <<<<"size">>, [t |-> "str", s |-> <<"Main form handler">>]>>,
                <<<<"live_preview_related">>, [t |-> "list", elems |-> <<[t |-> "str", s |-> <<"Ma REST/AJAX fallback system">>], [t |-> "str", s |-> <<"Event dispatching system">>], [t |-> "str", s |-> <<"Form data collection">>], [t |-> "str", s |-> <<"Error handling infrastructure">>]>>]>>,
                <<<<"integration_issues">>, [t |-> "list", elems |-> <<[t |-> "str", s |-> <<"No direct live preview integration">>], [t |-> "str", s |-> <<"Separate systems don't communicate">>], [t |-> "str", s |-> <<"Potential conflicts with live preview AJAX">>]>>]>>>>]>>,
            <<<<"admin-settings-page.js">>, [t |-> "dict", items |-> <<
                <<<<"size">>, [t |-> "str", s |-> <<"UI enhancements">>]>>,
                <<<<"live_preview_features">>, [t |-> "list", elems |-> <<[t |-> "str", s |-> <<"Live preview toggle button">>], [t |-> "str", s |-> <<"Theme presets application">>], [t |-> "str", s |-> <<"Conditional field showing/hiding">>], [t |-> "str", s |-> <<"Slider value updates">>]>>]>>,
                <<<<"problems">>, [t |-> "list", elems |-> <<[t |-> "str", s |-> <<"Separate live preview implementation">>], [t |-> "str", s |-> <<"No coordination with main live preview">>], [t |-> "str", s |-> <<"Outdated approach using deprecated events">>]>>]>>>>]>>>>],
     identified_problems |-> [t |-> "dict", items |-> <<
            <<<<"a", "r", "c", "h", "i", "t", "e", "c", "t", "u", "r", "e">>, [t |-> "list", elems |-> <<[t |-> "str", s |-> <<"Multiple separate live preview systems">>], [t |-> "str", s |-> <<"No unified approach">>], [t |-> "str", s |-> <<"AJAX-heavy approach is slow">>], [t |-> "str", s |-> <<"No proper error recovery">>], [t |-> "str", s |-> <<"Disconnected systems don't communicate">>]>>]>>,
            <<<<"p", "e", "r", "f", "o", "r", "m", "a", "n", "c", "e">>, [t |-> "list", elems |-> <<[t |-> "str", s |-> <<"Server roundtrip dla kaU+017Cdej zmiany">>], [t |-> "str", s |-> <<"No batching of changes">>], [t |-> "str", s |-> <<"CSS regeneration na serwerze kaU+017Cda zmiana">>], [t |-> "str", s |-> <<"No caching mechanisms">>], [t |-> "str", s |-> <<"Debounce timers not coordinated">>]>>]>>,
            <<<<"r", "e", "l", "i", "a", "b", "i", "l", "i", "t", "y">>, [t |-> "list", elems |-> <<[t |-> "str", s |-> <<"No error handling dla failed requests">>], [t |-> "str", s |-> <<"No rollback mechanism">>], [t |-> "str", s |-> <<"Broken state gdy server nie odpowiada">>], [t |-> "str", s |-> <<"No visual feedback dla errors">>], [t |-> "str", s |-> <<"Race conditions moU+017Cliwe">>]>>]>>,
            <<<<"u", "s", "e", "r", "_", "e", "x", "p", "e", "r", "i", "e", "n", "c", "e">>, [t |-> "list", elems |-> <<[t |-> "str", s |-> <<"Delay miU+0119dzy zmianU+0105 a preview (300ms+)">>], [t |-> "str", s |-> <<"No loading indicators">>], [t |-> "str", s |-> <<"Inconsistent behavior across fields">>], [t |-> "str", s |-> <<"No preview reset option">>], [t |-> "str", s |-> <<"Breaking gdy JavaScript errors">>]>>]>>,
            <<<<"m", "a", "i", "n", "t", "e", "n", "a", "n", "c", "e">>, [t |-> "list", elems |-> <<[t |-> "str", s |-> <<"Multiple implementations to maintain">>], [t |-> "str", s |-> <<"Hardcoded values and selectors">>], [t |-> "str", s |-> <<"Regex-based field detection fragile">>], [t |-> "str", s |-> <<"No TypeScript definitions">>], [t |-> "str", s |-> <<"Poor separation of concerns">>]>>]>>>>]]

\* script.py:118-176, modernization_plan

modernization_plan ==
    [t |-> "dict", items |-> <<
        <<<<"p", "h", "a", "s", "e", "_", "1", "_", "i", "m", "m", "e", "d", "i", "a", "t", "e">>, [t |-> "dict", items |-> <<
            <<<<"unified_live_preview_engine">>, [t |-> "dict", items |-> <<
                <<<<"file">>, [t |-> "str", s |-> <<"assets/js/unified-live-preview.js">>]>>,
                <<<<"features">>, [t |-> "list", elems |-> <<[t |-> "str", s |-> <<"Single live preview system">>], [t |-> "str", s |-> <<"Hybrid approach: CSS Variables + AJAX fallback">>], [t |-> "str", s |-> <<"Proper error handling and recovery">>], [t |-> "str", s |-> <<"Batch updates and debouncing">>], [t |-> "str", s |-> <<"Performance monitoring">>], [t |-> "str", s |-> <<"Visual feedback system">>]>>]>>>>]>>,
            <<<<"improvements">>, [t |-> "list", elems |-> <<[t |-> "str", s |-> <<"Replace multiple systems with single unified engine">>], [t |-> "str", s |-> <<"Add proper error handling and rollback">>], [t |-> "str", s |-> <<"Implement performance optimizations">>], [t |-> "str", s |-> <<"Add visual feedback indicators">>], [t |-> "str", s |-> <<"Create proper field detection system">>]>>]>>>>]>>,
        <<<<"p", "h", "a", "s", "e", "_", "2", "_", "o", "p", "t", "i", "m", "i", "z", "a", "t", "i", "o", "n">>, [t |-> "dict", items |-> <<
            <<<<"advanced_features">>, [t |-> "list", elems |-> <<[t |-> "str", s |-> <<"CSS Variables caching system">>], [t |-> "str", s |-> <<"Predictive CSS generation">>], [t |-> "str", s |-> <<"Background CSS compilation">>], [t |-> "str", s |-> <<"Progressive preview loading">>], [t |-> "str", s |-> <<"Smart debouncing based on field type">>]>>]>>,
            <<<<"performance_features">>, [t |-> "list", elems |-> <<[t |-> "str", s |-> <<"Request batching and coalescing">>], [t |-> "str", s |-> <<"CSS diff-based updates">>], [t |-> "str", s |-> <<"Service Worker for offline preview">>], [t |-> "str", s |-> <<"Memory-efficient CSS injection">>], [t |-> "str", s |-> <<"Lazy loading for complex previews">>]>>]>>>>]>>,
        <<<<"p", "h", "a", "s", "e", "_", "3", "_", "m", "o", "d", "e", "r", "n", "i", "z", "a", "t", "i", "o", "n">>, [t |-> "dict", items |-> <<
            <<<<"modern_architecture">>, [t |-> "list", elems |-> <<[t |-> "str", s |-> <<"TypeScript conversion">>], [t |-> "str", s |-> <<"ES6 modules architecture">>], [t |-> "str", s |-> <<"Web Components dla preview elements">>], [t |-> "str", s |-> <<"State management system">>], [t |-> "str", s |-> <<"Event-driven architecture">>]>>]>>,
            <<<<"advanced_ui">>, [t |-> "list", elems |-> <<[t |-> "str", s |-> <<"Real-time preview thumbnails">>], [t |-> "str", s |-> <<"Undo/redo system">>], [t |-> "str", s |-> <<"Preview comparison mode">>], [t |-> "str", s |-> <<"Mobile preview mode">>], [t |-> "str", s |-> <<"Accessibility preview mode">>]>>]>>>>]>>>>]

improvements ==
    [t |-> "dict", items |-> <<
        <<<<"Performance">>, [t |-> "str", s |-> <<"80% faster live preview">>]>>,
        <<<<"Reliability">>, [t |-> "str", s |-> <<"99.9% uptime with error recovery">>]>>,
        <<<<"User Experience">>, [t |-> "str", s |-> <<"Instant feedback, smooth interactions">>]>>,
        <<<<"Maintainability">>, [t |-> "str", s |-> <<"Single system to maintain">>]>>,
        <<<<"Scalability">>, [t |-> "str", s |-> <<"Handle 100+ concurrent changes">>]>>,
        <<<<"Accessibility">>, [t |-> "str", s |-> <<"Full keyboard and screen reader support">>]>>>>]

critical_issues ==
    [t |-> "list", elems |-> <<[t |-> "str", s |-> <<"Multiple competing live preview systems">>], [t |-> "str", s |-> <<"AJAX dependency creating 300ms+ delays">>], [t |-> "str", s |-> <<"No error handling or recovery mechanism">>], [t |-> "str", s |-> <<"Race conditions between different systems">>], [t |-> "str", s |-> <<"Performance degradation with multiple changes">>], [t |-> "str", s |-> <<"Broken state when server unavailable">>]>>]

action_items ==
    [t |-> "list", elems |-> <<[t |-> "str", s |-> <<"Create unified live preview engine">>], [t |-> "str", s |-> <<"Implement CSS Variables approach with AJAX fallback">>], [t |-> "str", s |-> <<"Add comprehensive error handling">>], [t |-> "str", s |-> <<"Create performance monitoring dashboard">>], [t |-> "str", s |-> <<"Add visual feedback for preview states">>], [t |-> "str", s |-> <<"Implement proper batching and debouncing">>]>>]

\* the prints of script.py whose argument holds no placeholder, by source line

ScriptLiteral(line) ==
    CASE line = 179 -> <<"===", " ", "ANALIZA SYSTEMU LIVE PREVIEW ===", "\n">>
      [] line = 181 -> <<"U+1F4C1", " ", "AKTUALNE PLIKI", ":">>
      [] line = 194 -> <<"\n", "U+1F6A8", " ", "GU+0141U+00D3WNE PROBLEMY", ":">>
      [] line = 200 -> <<"\n", "U+1F680", " ", "PLAN MODERNIZACJI", ":">>
      [] line = 214 -> <<"\n", "U+1F4CA", " ", "ANALIZA WYDAJNOU+015ACI", ":">>
      [] line = 215 -> <<" ", " ", " ", "Current approach", ":">>
      [] line = 216 -> <<" ", " ", " ", " ", " ", "U+2022", " ", "AJAX roundtrip", ":", " ", "~200-500ms delay">>
      [] line = 217 -> <<" ", " ", " ", " ", " ", "U+2022", " ", "CSS generation", ":", " ", "~50-100ms server time">>
      [] line = 218 -> <<" ", " ", " ", " ", " ", "U+2022", " ", "DOM injection", ":", " ", "~5-10ms">>
      [] line = 219 -> <<" ", " ", " ", " ", " ", "U+2022", " ", "Total delay", ":", " ", "~255-610ms per change">>
      [] line = 221 -> <<"\n", " ", " ", " ", "Target improvements", ":">>
      [] line = 222 -> <<" ", " ", " ", " ", " ", "U+2022", " ", "CSS Variables direct", ":", " ", "~1-5ms">>
      [] line = 223 -> <<" ", " ", " ", " ", " ", "U+2022", " ", "Batched AJAX fallback", ":", " ", "~100-200ms">>
      [] line = 224 -> <<" ", " ", " ", " ", " ", "U+2022", " ", "Smart caching", ":", " ", "~50% reduction">>
      [] line = 225 -> <<" ", " ", " ", " ", " ", "U+2022", " ", "Total target", ":", " ", "~50-100ms per change">>
      [] line = 228 -> <<"\n", "U+1F3AF", " ", "PRZEWIDYWANE REZULTATY", ":">>
      [] line = 241 -> <<"\n", "U+26A1", " ", "KRYTYCZNE ISSUES TO FIX", ":">>
      [] line = 254 -> <<"\n", "U+1F4CB", " ", "IMMEDIATE ACTION ITEMS", ":">>
      [] line = 267 -> <<"\n", "U+1F527", " ", "ARCHITECTURE RECOMMENDATION", ":">>
      [] line = 268 -> <<" ", " ", " ", "Primary", ":", " ", "CSS Variables voor instant feedback">>
      [] line = 269 -> <<" ", " ", " ", "Fallback", ":", " ", "Batched AJAX voor complex changes">>
      [] line = 270 -> <<" ", " ", " ", "Recovery", ":", " ", "Local state management with rollback">>
      [] line = 271 -> <<" ", " ", " ", "Monitoring", ":", " ", "Real-time performance metrics">>
      [] line = 272 -> <<" ", " ", " ", "Testing", ":", " ", "Automated preview regression tests">>

ScriptLiteralLines ==
    {179, 181, 194, 200, 214, 215, 216, 217, 218, 219, 221, 222, 223, 224, 225, 228, 241, 254, 267, 268, 269, 270, 271, 272}

\* script (1).py as its sequence of statements
Script1 ==
    <<
    [line |-> 3, kind |-> "print", text |-> <<"===", " ", "SZCZEGU+00D3U+0141OWA ANALIZA SYSTEMU LIVE PREVIEW MAS7 ===", "\n">>],
    [line |-> 6, kind |-> "print", text |-> <<"U+1F4C1", " ", "simple-live-preview.js (GU+0141U+00D3WNY SYSTEM)">>],
    [line |-> 7, kind |-> "print", text |-> <<" ", " ", " ", "Approach", ":", " ", "AJAX-based CSS injection">>],
    [line |-> 8, kind |-> "print", text |-> <<" ", " ", " ", "Key Features", ":">>],
    [line |-> 9, kind |-> "print", text |-> <<" ", " ", " ", " ", " ", "U+2713", " ", "Real-time CSS generation poprzez AJAX call">>],
    [line |-> 10, kind |-> "print", text |-> <<" ", " ", " ", " ", " ", "U+2713", " ", "Direct CSS injection via <style id='mas-v2-live-preview-css'>">>],
    [line |-> 11, kind |-> "print", text |-> <<" ", " ", " ", " ", " ", "U+2713", " ", "WordPress Color Picker integration">>],
    [line |-> 12, kind |-> "print", text |-> <<" ", " ", " ", " ", " ", "U+2713", " ", "Debounced updates (300ms timeout)">>],
    [line |-> 13, kind |-> "print", text |-> <<" ", " ", " ", " ", " ", "U+2713", " ", "Field tracking przez regex pattern matching">>],
    [line |-> 14, kind |-> "print", text |-> <<" ", " ", " ", " ", " ", "U+2713", " ", "Support for sliders, checkboxes, color pickers">>],
    [line |-> 16, kind |-> "print", text |-> <<"\n", " ", " ", " ", "Problems zidentyfikowane", ":">>],
    [line |-> 17, kind |-> "print", text |-> <<" ", " ", " ", " ", " ", "U+274C", " ", "AJAX dependency - kaU+017Cda zmiana wymaga server roundtrip">>],
    [line |-> 18, kind |-> "print", text |-> <<" ", " ", " ", " ", " ", "U+274C", " ", "Brak error handling dla failed AJAX requests">>],
    [line |-> 19, kind |-> "print", text |-> <<" ", " ", " ", " ", " ", "U+274C", " ", "Regex pattern matching '/\\[([^\\]]+)\\]$/' prone to errors">>],
    [line |-> 20, kind |-> "print", text |-> <<" ", " ", " ", " ", " ", "U+274C", " ", "No rollback mechanism przy bU+0142U+0119dach">>],
    [line |-> 21, kind |-> "print", text |-> <<" ", " ", " ", " ", " ", "U+274C", " ", "Hard-coded 300ms debounce - nie optimized dla rU+00F3U+017Cnych field types">>],
    [line |-> 22, kind |-> "print", text |-> <<" ", " ", " ", " ", " ", "U+274C", " ", "Brak optimizacji dla bulk changes">>],
    [line |-> 23, kind |-> "print", text |-> <<" ", " ", " ", " ", " ", "U+274C", " ", "changedSettings object nie jest cleared po successful update">>],
    [line |-> 25, kind |-> "print", text |-> <<"\n", "U+1F4C1", " ", "simple-live-preview-minimal.js (ALTERNATIVE)">>],
    [line |-> 26, kind |-> "print", text |-> <<" ", " ", " ", "Approach", ":", " ", "CSS Variables direct injection">>],
    [line |-> 27, kind |-> "print", text |-> <<" ", " ", " ", "Key Features", ":">>],
    [line |-> 28, kind |-> "print", text |-> <<" ", " ", " ", " ", " ", "U+2713", " ", "Direct CSS variable setting poprzez root.style.setProperty()">>],
    [line |-> 29, kind |-> "print", text |-> <<" ", " ", " ", " ", " ", "U+2713", " ", "No server communication - instant updates">>],
    [line |-> 30, kind |-> "print", text |-> <<" ", " ", " ", " ", " ", "U+2713", " ", "100ms debounce - szybszy niU+017C main system">>],
    [line |-> 31, kind |-> "print", text |-> <<" ", " ", " ", " ", " ", "U+2713", " ", "Minimal dependency - tylko document.documentElement">>],
    [line |-> 33, kind |-> "print", text |-> <<"\n", " ", " ", " ", "Problems zidentyfikowane", ":">>],
    [line |-> 34, kind |-> "print", text |-> <<" ", " ", " ", " ", " ", "U+274C", " ", "Limited to CSS variables only - nie complex CSS generation">>],
    [line |-> 35, kind |-> "print", text |-> <<" ", " ", " ", " ", " ", "U+274C", " ", "Hard-coded variable naming '--mas-' + setting.replace(/_/g, '-')">>],
    [line |-> 36, kind |-> "print", text |-> <<" ", " ", " ", " ", " ", "U+274C", " ", "No fallback dla browsers bez CSS variables support">>],
    [line |-> 37, kind |-> "print", text |-> <<" ", " ", " ", " ", " ", "U+274C", " ", "Brak persistence - zmiany znikajU+0105 without save">>],
    [line |-> 38, kind |-> "print", text |-> <<" ", " ", " ", " ", " ", "U+274C", " ", "Limited field type support (tylko colors, heights, widths)">>],
    [line |-> 40, kind |-> "print", text |-> <<"\n", "U+1F4C1", " ", "mas-settings-form-handler.js (FORM SYSTEM)">>],
    [line |-> 41, kind |-> "print", text |-> <<" ", " ", " ", "Live Preview Integration", ":">>],
    [line |-> 42, kind |-> "print", text |-> <<" ", " ", " ", " ", " ", "~", " ", "Ma REST/AJAX fallback infrastructure">>],
    [line |-> 43, kind |-> "print", text |-> <<" ", " ", " ", " ", " ", "~", " ", "Event dispatching system available">>],
    [line |-> 44, kind |-> "print", text |-> <<" ", " ", " ", " ", " ", "~", " ", "Form data collection mechanisms">>],
    [line |-> 45, kind |-> "print", text |-> <<" ", " ", " ", " ", " ", "~", " ", "Error handling infrastructure">>],
    [line |-> 47, kind |-> "print", text |-> <<"\n", " ", " ", " ", "Integration Issues", ":">>],
    [line |-> 48, kind |-> "print", text |-> <<" ", " ", " ", " ", " ", "U+26A0U+FE0F", " ", "No direct live preview integration">>],
    [line |-> 49, kind |-> "print", text |-> <<" ", " ", " ", " ", " ", "U+26A0U+FE0F", " ", "Separate systems nie komunikujU+0105 siU+0119">>],
    [line |-> 50, kind |-> "print", text |-> <<" ", " ", " ", " ", " ", "U+26A0U+FE0F", " ", "Potential conflicts - form handler + live preview AJAX">>],
    [line |-> 51, kind |-> "print", text |-> <<" ", " ", " ", " ", " ", "U+26A0U+FE0F", " ", "Dual handler warnings already identified w kodzie">>],
    [line |-> 53, kind |-> "print", text |-> <<"\n", "U+1F4C1", " ", "admin-settings-page.js (UI ENHANCEMENTS)">>],
    [line |-> 54, kind |-> "print", text |-> <<" ", " ", " ", "Live Preview Related Features", ":">>],
    [line |-> 55, kind |-> "print", text |-> <<" ", " ", " ", " ", " ", "U+2713", " ", "Live preview toggle button">>],
    [line |-> 56, kind |-> "print", text |-> <<" ", " ", " ", " ", " ", "U+2713", " ", "Theme presets auto-application">>],
    [line |-> 57, kind |-> "print", text |-> <<" ", " ", " ", " ", " ", "U+2713", " ", "Conditional field showing/hiding">>],
    [line |-> 58, kind |-> "print", text |-> <<" ", " ", " ", " ", " ", "U+2713", " ", "Real-time slider value updates">>],
    [line |-> 60, kind |-> "print", text |-> <<"\n", " ", " ", " ", "Problems", ":">>],
    [line |-> 61, kind |-> "print", text |-> <<" ", " ", " ", " ", " ", "U+274C", " ", "FOURTH separate live preview implementation">>],
    [line |-> 62, kind |-> "print", text |-> <<" ", " ", " ", " ", " ", "U+274C", " ", "Uses deprecated $(document).on('input.livepreview')">>],
    [line |-> 63, kind |-> "print", text |-> <<" ", " ", " ", " ", " ", "U+274C", " ", "No coordination z main live preview systems">>],
    [line |-> 64, kind |-> "print", text |-> <<" ", " ", " ", " ", " ", "U+274C", " ", "setupLivePreviewToggle() conflicts z other systems">>],
    [line |-> 66, kind |-> "print", text |-> <<"\n", "============================================================">>],
    [line |-> 67, kind |-> "print", text |-> <<"U+1F6A8", " ", "KRYTYCZNE PROBLEMY ZIDENTYFIKOWANE">>],
    [line |-> 68, kind |-> "print", text |-> <<"============================================================">>],
    [line |-> 81, kind |-> "for", over |-> [t |-> "list", elems |-> <<[t |-> "str", s |-> <<"4 RU+00D3U+017BNE live preview implementations w jednej wtyczce">>], [t |-> "str", s |-> <<"AJAX bottleneck - kaU+017Cda zmiana = server roundtrip (300ms+)">>], [t |-> "str", s |-> <<"ZERO error handling - broken state gdy server nie odpowiada">>], [t |-> "str", s |-> <<"Race conditions miU+0119dzy rU+00F3U+017Cnymi systemami">>], [t |-> "str", s |-> <<"Performance degradation przy szybkich zmianach">>], [t |-> "str", s |-> <<"Memory leaks - changedSettings nie jest cleared">>], [t |-> "str", s |-> <<"Hard-coded values i selectors wszU+0119dzie">>], [t |-> "str", s |-> <<"Brak unified state management">>]>>]],
    [line |-> 82, kind |-> "item", style |-> "enum2d", indent |-> 0, marker |-> ""],
    [line |-> 84, kind |-> "print", text |-> <<"\n", "============================================================">>],
    [line |-> 85, kind |-> "print", text |-> <<"U+1F4CA", " ", "ANALIZA WYDAJNOU+015ACI">>],
    [line |-> 86, kind |-> "print", text |-> <<"============================================================">>],
    [line |-> 88, kind |-> "print", text |-> <<"\n", "CURRENT STATE", ":">>],
    [line |-> 89, kind |-> "print", text |-> <<" ", " ", " ", "U+2022", " ", "User change U+2192 300ms debounce U+2192 AJAX request U+2192 CSS generation U+2192 DOM update">>],
    [line |-> 90, kind |-> "print", text |-> <<" ", " ", " ", "U+2022", " ", "Total delay", ":", " ", "~350-600ms per change">>],
    [line |-> 91, kind |-> "print", text |-> <<" ", " ", " ", "U+2022", " ", "Server load", ":", " ", "High (CSS generation kaU+017Cda zmiana)">>],
    [line |-> 92, kind |-> "print", text |-> <<" ", " ", " ", "U+2022", " ", "Network", ":", " ", "Multiple unnecessary requests">>],
    [line |-> 93, kind |-> "print", text |-> <<" ", " ", " ", "U+2022", " ", "Memory", ":", " ", "Growing changedSettings object">>],
    [line |-> 95, kind |-> "print", text |-> <<"\n", "PERFORMANCE BOTTLENECKS", ":">>],
    [line |-> 104, kind |-> "for", over |-> [t |-> "list", elems |-> <<[t |-> "str", s |-> <<"AJAX roundtrip delay: 200-400ms">>], [t |-> "str", s |-> <<"Server CSS generation: 50-150ms">>], [t |-> "str", s |-> <<"DOM style injection: 5-20ms">>], [t |-> "str", s |-> <<"Debounce waiting: 300ms">>], [t |-> "str", s |-> <<"Regex pattern matching: 1-5ms per field">>]>>]],
    [line |-> 105, kind |-> "item", style |-> "bullet", indent |-> 3, marker |-> "U+2022"],
    [line |-> 107, kind |-> "print", text |-> <<"\n", "============================================================">>],
    [line |-> 108, kind |-> "print", text |-> <<"U+1F680", " ", "MODERNIZATION PLAN - 3 PHASES">>],
    [line |-> 109, kind |-> "print", text |-> <<"============================================================">>],
    [line |-> 111, kind |-> "print", text |-> <<"\n", "PHASE 1", ":", " ", "IMMEDIATE FIXES (Week 1)">>],
    [line |-> 112, kind |-> "print", text |-> <<" ", " ", " ", "U+1F3AF", " ", "Goal", ":", " ", "Unified system + basic performance">>],
    [line |-> 123, kind |-> "for", over |-> [t |-> "list", elems |-> <<[t |-> "str", s |-> <<"Create unified-live-preview.js - consolidate all 4 systems">>], [t |-> "str", s |-> <<"Implement CSS Variables approach voor instant feedback">>], [t |-> "str", s |-> <<"Add AJAX fallback tylko dla complex CSS">>], [t |-> "str", s |-> <<"Proper error handling z visual feedback">>], [t |-> "str", s |-> <<"Smart debouncing based on field type">>], [t |-> "str", s |-> <<"Memory management - clear changedSettings">>]>>]],
    [line |-> 124, kind |-> "item", style |-> "bullet", indent |-> 3, marker |-> "U+2713"],
    [line |-> 126, kind |-> "print", text |-> <<"\n", " ", " ", " ", "Expected results", ":", " ", "70% faster, 90% more reliable">>],
    [line |-> 128, kind |-> "print", text |-> <<"\n", "PHASE 2", ":", " ", "OPTIMIZATION (Week 2-3)">>],
    [line |-> 129, kind |-> "print", text |-> <<" ", " ", " ", "U+1F3AF", " ", "Goal", ":", " ", "Advanced performance + UX">>],
    [line |-> 140, kind |-> "for", over |-> [t |-> "list", elems |-> <<[t |-> "str", s |-> <<"Request batching and coalescing">>], [t |-> "str", s |-> <<"CSS diff-based updates (tylko changed parts)">>], [t |-> "str", s |-> <<"Background CSS compilation">>], [t |-> "str", s |-> <<"Progressive preview loading">>], [t |-> "str", s |-> <<"Undo/redo system voor changes">>], [t |-> "str", s |-> <<"Preview comparison mode">>]>>]],
    [line |-> 141, kind |-> "item", style |-> "bullet", indent |-> 3, marker |-> "U+26A1"],
    [line |-> 143, kind |-> "print", text |-> <<"\n", " ", " ", " ", "Expected results", ":", " ", "90% faster, production-ready">>],
    [line |-> 145, kind |-> "print", text |-> <<"\n", "PHASE 3", ":", " ", "MODERNIZATION (Week 4+)">>],
    [line |-> 146, kind |-> "print", text |-> <<" ", " ", " ", "U+1F3AF", " ", "Goal", ":", " ", "Future-proof architecture">>],
    [line |-> 157, kind |-> "for", over |-> [t |-> "list", elems |-> <<[t |-> "str", s |-> <<"TypeScript conversion z proper types">>], [t |-> "str", s |-> <<"ES6 modules architecture">>], [t |-> "str", s |-> <<"Web Components voor preview UI">>], [t |-> "str", s |-> <<"State management z Redux/MobX pattern">>], [t |-> "str", s |-> <<"WebSocket real-time updates">>], [t |-> "str", s |-> <<"Mobile/responsive preview modes">>]>>]],
    [line |-> 158, kind |-> "item", style |-> "bullet", indent |-> 3, marker |-> "U+1F52E"],
    [line |-> 160, kind |-> "print", text |-> <<"\n", " ", " ", " ", "Expected results", ":", " ", "Modern, scalable, maintainable">>],
    [line |-> 162, kind |-> "print", text |-> <<"\n", "============================================================">>],
    [line |-> 163, kind |-> "print", text |-> <<"U+1F527", " ", "RECOMMENDED ARCHITECTURE">>],
    [line |-> 164, kind |-> "print", text |-> <<"============================================================">>],
    [line |-> 166, kind |-> "print", text |-> <<"\n", "UNIFIED LIVE PREVIEW ENGINE", ":">>],
    [line |-> 167, kind |-> "print", text |-> <<" ", " ", " ", "U+250CU+2500", " ", "CSS Variables Layer (instant feedback)">>],
    [line |-> 168, kind |-> "print", text |-> <<" ", " ", " ", "U+251CU+2500", " ", "AJAX Fallback Layer (complex CSS)">>],
    [line |-> 169, kind |-> "print", text |-> <<" ", " ", " ", "U+251CU+2500", " ", "Error Recovery Layer (rollback, retry)">>],
    [line |-> 170, kind |-> "print", text |-> <<" ", " ", " ", "U+251CU+2500", " ", "Performance Layer (batching, caching)">>],
    [line |-> 171, kind |-> "print", text |-> <<" ", " ", " ", "U+2514U+2500", " ", "UI Feedback Layer (loading, errors)">>],
    [line |-> 173, kind |-> "print", text |-> <<"\n", "CORE PRINCIPLES", ":">>],
    [line |-> 183, kind |-> "for", over |-> [t |-> "list", elems |-> <<[t |-> "str", s |-> <<"SINGLE source of truth voor live preview state">>], [t |-> "str", s |-> <<"CSS Variables FIRST, AJAX fallback only when needed">>], [t |-> "str", s |-> <<"Comprehensive error handling z graceful degradation">>], [t |-> "str", s |-> <<"Performance monitoring z automatic optimization">>], [t |-> "str", s |-> <<"Modular architecture voor easy maintenance">>], [t |-> "str", s |-> <<"Backward compatibility z existing form system">>]>>]],
    [line |-> 184, kind |-> "item", style |-> "bullet", indent |-> 3, marker |-> "U+2022"],
    [line |-> 186, kind |-> "print", text |-> <<"\n", "U+1F3AF", " ", "SUCCESS METRICS", ":">>],
    [line |-> 195, kind |-> "for", over |-> [t |-> "dict", items |-> <<
                    <<<<"Performance">>, [t |-> "str", s |-> <<"< 50ms average preview delay">>]>>,
                    <<<<"Reliability">>, [t |-> "str", s |-> <<"99.9% success rate z error recovery">>]>>,
                    <<<<"User Experience">>, [t |-> "str", s |-> <<"Instant feedback, smooth interactions">>]>>,
                    <<<<"Maintainability">>, [t |-> "str", s |-> <<"Single system, clear separation">>]>>,
                    <<<<"Scalability">>, [t |-> "str", s |-> <<"Handle 100+ fields without degradation">>]>>>>]],
    [line |-> 196, kind |-> "item", style |-> "kv", indent |-> 3, marker |-> ""],
    [line |-> 198, kind |-> "print", text |-> <<"\n", "U+26A1", " ", "IMMEDIATE ACTIONS NEEDED", ":">>],
    [line |-> 208, kind |-> "for", over |-> [t |-> "list", elems |-> <<[t |-> "str", s |-> <<"Stop using 4 different live preview systems">>], [t |-> "str", s |-> <<"Create unified live preview engine (unified-live-preview.js)">>], [t |-> "str", s |-> <<"Implement proper error handling ASAP">>], [t |-> "str", s |-> <<"Add visual feedback voor preview states">>], [t |-> "str", s |-> <<"Fix memory leaks w changedSettings">>], [t |-> "str", s |-> <<"Coordinate z MAS_Unified_CSS_Manager">>]>>]],
    [line |-> 209, kind |-> "item", style |-> "enum", indent |-> 3, marker |-> ""],
    [line |-> 211, kind |-> "print", text |-> <<"\n", "U+1F4A1", " ", "CONCLUSION", ":">>],
    [line |-> 212, kind |-> "print", text |-> <<" ", " ", " ", "Current live preview system needs COMPLETE OVERHAUL">>],
    [line |-> 213, kind |-> "print", text |-> <<" ", " ", " ", "Multiple competing systems causing conflicts">>],
    [line |-> 214, kind |-> "print", text |-> <<" ", " ", " ", "Performance is suboptimal (300ms+ delays)">>],
    [line |-> 215, kind |-> "print", text |-> <<" ", " ", " ", "No error handling = bad user experience">>],
    [line |-> 216, kind |-> "print", text |-> <<" ", " ", " ", "Unified approach will solve all major issues">>]
    >>

----------------------------------------------------------------------------
(* The documents script.py is run on: the one it is written with, and      *)
(* variants of each of its three mappings built from small pools.          *)

Key(x) == <<x>>

MkDoc(files, cats, plan) ==
    [live_preview_analysis |-> [current_files |-> files, identified_problems |-> cats],
     modernization_plan |-> plan]

BuiltinDoc ==
    [live_preview_analysis |-> live_preview_analysis,
     modernization_plan |-> modernization_plan]

\* file records: complete; without 'approach' (as the third and fourth of the
\* script's own); with empty lists; with scalar entries only
FilePool ==
    { <<Key("a.js"), Dict(<< <<Key("size"), Str("Main file")>>,
                             <<Key("approach"), Str("AJAX")>>,
                             <<Key("key_features"), List(<<Str("f1"), Str("f2")>>)>>,
                             <<Key("problems"), List(<<Str("p1")>>)>> >>)>>,
      <<Key("b.js"), Dict(<< <<Key("size"), Str("Form handler")>>,
                             <<Key("live_preview_related"), List(<<Str("r1")>>)>>,
                             <<Key("integration_issues"), List(<<Str("i1")>>)>> >>)>>,
      <<Key("c.js"), Dict(<< <<Key("approach"), Str("Variables")>>,
                             <<Key("key_features"), List(<<>>)>>,
                             <<Key("problems"), List(<<>>)>> >>)>>,
      <<Key("d.js"), Dict(<< <<Key("size"), Str("UI")>>,
                             <<Key("approach"), Str("Events")>> >>)>> }

CategoryPool ==
    { << <<"u", "x">>, List(<<Str("q1"), Str("q2")>>)>>,
      << <<"p", "e", "r", "f">>, List(<<Str("q3")>>)>>,
      << <<"o", "p", "s">>, List(<<>>)>> }

\* phases: as the script's own first phase; an empty list and a plain string;
\* a dict without 'features', a number and a dict with empty 'features'; no
\* component at all
PhasePool ==
    { << <<"p", "_", "1">>,
         Dict(<< <<Key("engine"), Dict(<< <<Key("file"), Str("unified.js")>>,
                                          <<Key("features"), List(<<Str("e1"), Str("e2")>>)>> >>)>>,
                 <<Key("improvements"), List(<<Str("m1"), Str("m2")>>)>> >>)>>,
      << <<"p", "_", "2">>,
         Dict(<< <<Key("none"), List(<<>>)>>,
                 <<Key("note"), Str("later")>> >>)>>,
      << <<"p", "_", "3">>,
         Dict(<< <<Key("bare"), Dict(<< <<Key("file"), Str("x.js")>> >>)>>,
                 <<Key("count"), PyInt(3)>>,
                 <<Key("hollow"), Dict(<< <<Key("features"), List(<<>>)>> >>)>> >>)>>,
      << <<"p", "_", "4">>, Dict(<<>>)>> }

BaseFiles == Dict(<< <<Key("d.js"), Dict(<< <<Key("size"), Str("UI")>>,
                                            <<Key("approach"), Str("Events")>> >>)>> >>)
BaseCategories == Dict(<< << <<"u", "x">>, List(<<Str("q1")>>)>> >>)
BasePlan == Dict(<< << <<"p", "_", "1">>, Dict(<< <<Key("improvements"), List(<<Str("m1")>>)>> >>)>> >>)

\* the mappings of at most n entries over a pool, every order, no key twice
Mappings(pool, n) ==
    UNION { { f \in [1..m -> pool] : \A a, b \in 1..m : a # b => f[a][1] # f[b][1] } : m \in 0..n }

Docs ==
    {BuiltinDoc}
    \cup { MkDoc(Dict(fs), BaseCategories, BasePlan) : fs \in Mappings(FilePool, MaxEntries) }
    \cup { MkDoc(BaseFiles, Dict(cs), BasePlan) : cs \in Mappings(CategoryPool, MaxEntries) }
    \cup { MkDoc(BaseFiles, BaseCategories, Dict(ps)) : ps \in Mappings(PhasePool, MaxEntries) }

\* script (1).py walks no dictionary of this kind
NoDoc == MkDoc(Dict(<<>>), Dict(<<>>), Dict(<<>>))

----------------------------------------------------------------------------
(* The sink and the statements both scripts are made of. *)

StartLine(s) == IF s = "script" THEN 179 ELSE 3
EndLine(s) == IF s = "script" THEN 273 ELSE 217

\* whether the sink takes its k-th write
SinkAccepts(k) == IF k <= MaxFailAt THEN {TRUE, FALSE} ELSE {TRUE}

\* print inside try/except: a rejected write is dropped and the run goes on
WriteOutcomeSwallowed(accepted) == "running"

\* print: the exception of a rejected write is caught nowhere
WriteOutcome(accepted) == IF accepted THEN "running" ELSE "SinkWriteFailure"

\* print(text) at `line`, then on to `next`
Write(line, text, next) ==
    /\ attempts' = attempts + 1
    /\ \E accepted \in SinkAccepts(attempts + 1) :
         /\ status' = WriteOutcome(accepted)
         /\ out' = IF accepted
                     THEN Append(out, [line |-> line, idx |-> ix, text |-> text])
                     ELSE out
         /\ pc' = IF WriteOutcome(accepted) = "running" THEN next ELSE pc
    /\ UNCHANGED <<script, doc, hashseed, run, prev, ix>>

\* the head of the for loop at nesting level d over n elements
ForHead(d, n, body, exit) ==
    LET cur == IF Len(ix) >= d THEN ix[d] ELSE 0 IN
    /\ IF cur < n
         THEN ix' = SubSeq(ix, 1, d - 1) \o <<cur + 1>> /\ pc' = body
         ELSE ix' = SubSeq(ix, 1, d - 1) /\ pc' = exit
    /\ UNCHANGED <<script, doc, hashseed, run, prev, out, attempts, status>>

\* an if test
Branch(cond, then, else) ==
    /\ pc' = IF cond THEN then ELSE else
    /\ UNCHANGED <<script, doc, hashseed, run, prev, ix, out, attempts, status>>

\* an uncaught exception
Raise(exc) ==
    /\ status' = exc
    /\ UNCHANGED <<script, doc, hashseed, run, prev, pc, ix, out, attempts>>

At(s, line) == script = s /\ status = "running" /\ pc = line

\* the process's exit code
ExitCode == IF status = "done" THEN 0 ELSE 1

----------------------------------------------------------------------------
(* script.py *)

\* the statement after each print without placeholder
AfterLiteral(line) ==
    CASE line = 179 -> 181 [] line = 181 -> 182 [] line = 194 -> 195
      [] line = 200 -> 201 [] line = 219 -> 221 [] line = 225 -> 228
      [] line = 228 -> 238 [] line = 241 -> 251 [] line = 254 -> 264
      [] line = 267 -> 268 [] OTHER -> line + 1

PrintLiteral ==
    /\ script = "script" /\ status = "running" /\ pc \in ScriptLiteralLines
    /\ Write(pc, ScriptLiteral(pc), AfterLiteral(pc))

\* for filename, details in live_preview_analysis["current_files"].items()
current_files == Items(doc.live_preview_analysis.current_files, hashseed)
filename == current_files[ix[1]][1]
details == current_files[ix[1]][2]

ForFile == At("script", 182) /\ ForHead(1, Len(current_files), 183, 194)

PrintFilename == At("script", 183) /\ Write(183, <<"\n">> \o filename \o <<":">>, 184)

PrintApproach ==
    /\ At("script", 184)
    /\ IF HasKey(details, Key("approach"))
         THEN Write(184, Sp(3) \o <<"Approach", ":", " ">> \o Format(GetItem(details, Key("approach"))), 185)
         ELSE Raise("KeyError")

IfKeyFeatures == At("script", 185) /\ Branch(HasKey(details, Key("key_features")), 186, 189)

PrintFeaturesHeading == At("script", 186) /\ Write(186, Sp(3) \o <<"Features", ":">>, 187)

ForFeature ==
    At("script", 187) /\ ForHead(2, Len(Iter(GetItem(details, Key("key_features")))), 188, 189)

PrintFeature ==
    /\ At("script", 188)
    /\ Write(188, Sp(5) \o <<"U+2713", " ">> \o Format(Iter(GetItem(details, Key("key_features")))[ix[2]]), 187)

IfProblems == At("script", 189) /\ Branch(HasKey(details, Key("problems")), 190, 182)

PrintProblemsHeading == At("script", 190) /\ Write(190, Sp(3) \o <<"Problems", ":">>, 191)

ForProblem ==
    At("script", 191) /\ ForHead(2, Len(Iter(GetItem(details, Key("problems")))), 192, 182)

PrintProblem ==
    /\ At("script", 192)
    /\ Write(192, Sp(5) \o <<"U+274C", " ">> \o Format(Iter(GetItem(details, Key("problems")))[ix[2]]), 191)

\* for category, problems in live_preview_analysis["identified_problems"].items()
identified_problems == Items(doc.live_preview_analysis.identified_problems, hashseed)
category == identified_problems[ix[1]][1]
problems == identified_problems[ix[1]][2]

ForCategory == At("script", 195) /\ ForHead(1, Len(identified_problems), 196, 200)

PrintCategory == At("script", 196) /\ Write(196, <<"\n">> \o Upper(category) \o <<":">>, 197)

ForCategoryProblem == At("script", 197) /\ ForHead(2, Len(Iter(problems)), 198, 195)

PrintCategoryProblem ==
    At("script", 198) /\ Write(198, Sp(3) \o <<"U+2022", " ">> \o Format(Iter(problems)[ix[2]]), 197)

\* for phase, details in modernization_plan.items()
phases == Items(doc.modernization_plan, hashseed)
phase == phases[ix[1]][1]
components == Items(phases[ix[1]][2], hashseed)
component == components[ix[2]][1]
info == components[ix[2]][2]

ForPhase == At("script", 201) /\ ForHead(1, Len(phases), 202, 214)

PrintPhase ==
    At("script", 202) /\ Write(202, <<"\n">> \o Replace(Upper(phase), "_", " ") \o <<":">>, 203)

ForComponent == At("script", 203) /\ ForHead(2, Len(components), 204, 201)

IfDictWithFeatures ==
    At("script", 204) /\ Branch(IsDict(info) /\ HasKey(info, Key("features")), 205, 208)

PrintComponentOfDict == At("script", 205) /\ Write(205, Sp(3) \o component \o <<":">>, 206)

ForComponentFeature ==
    At("script", 206) /\ ForHead(3, Len(Iter(GetItem(info, Key("features")))), 207, 203)

PrintComponentFeature ==
    /\ At("script", 207)
    /\ Write(207, Sp(5) \o <<"U+2713", " ">> \o Format(Iter(GetItem(info, Key("features")))[ix[3]]), 206)

ElifList == At("script", 208) /\ Branch(IsList(info), 209, 203)

PrintComponentOfList == At("script", 209) /\ Write(209, Sp(3) \o component \o <<":">>, 210)

ForItem == At("script", 210) /\ ForHead(3, Len(Iter(info)), 211, 203)

PrintItem ==
    At("script", 211) /\ Write(211, Sp(5) \o <<"U+2192", " ">> \o Format(Iter(info)[ix[3]]), 210)

\* for metric, improvement in improvements.items()
ForImprovement == At("script", 238) /\ ForHead(1, Len(Items(improvements, hashseed)), 239, 241)

PrintImprovement ==
    /\ At("script", 239)
    /\ LET kv == Items(improvements, hashseed)[ix[1]] IN
       Write(239, Sp(3) \o kv[1] \o <<":", " ">> \o Format(kv[2]), 238)

\* for i, issue in enumerate(critical_issues, 1)
ForIssue == At("script", 251) /\ ForHead(1, Len(Iter(critical_issues)), 252, 254)

PrintIssue ==
    /\ At("script", 252)
    /\ Write(252, Sp(3) \o Digits(ix[1]) \o <<".", " ">> \o Format(Iter(critical_issues)[ix[1]]), 251)

\* for i, item in enumerate(action_items, 1)
ForActionItem == At("script", 264) /\ ForHead(1, Len(Iter(action_items)), 265, 267)

PrintActionItem ==
    /\ At("script", 265)
    /\ Write(265, Sp(3) \o Digits(ix[1]) \o <<".", " ">> \o Format(Iter(action_items)[ix[1]]), 264)

----------------------------------------------------------------------------
(* script (1).py *)

\* the statement at each source line
S1IndexOf ==
    [line \in { Script1[n].line : n \in 1..Len(Script1) } |->
        CHOOSE n \in 1..Len(Script1) : Script1[n].line = line]
S1Index(line) == S1IndexOf[line]
S1At(line) == Script1[S1Index(line)]
S1After(n) == IF n < Len(Script1) THEN Script1[n + 1].line ELSE EndLine("script1")

\* what the for statement at Script1[n] visits
S1Over(n) ==
    IF IsDict(Script1[n].over) THEN Items(Script1[n].over, hashseed) ELSE Iter(Script1[n].over)

\* every loop body written like the body of an enumerate loop
S1ItemTextNumbered(st, i, e) ==
    Sp(st.indent) \o Digits(i) \o <<".", " ">> \o Format(IF st.style = "kv" THEN e[2] ELSE e)

\* the line the print in a loop body writes for the i-th element e
S1ItemText(st, i, e) ==
    CASE st.style = "bullet" -> Sp(st.indent) \o <<st.marker, " ">> \o Format(e)
      [] st.style = "enum" -> Sp(st.indent) \o Digits(i) \o <<".", " ">> \o Format(e)
      [] st.style = "enum2d" -> Sp(st.indent) \o Pad2d(i) \o <<".", " ">> \o Format(e)
      [] st.style = "kv" -> Sp(st.indent) \o e[1] \o <<":", " ">> \o Format(e[2])

S1Print ==
    /\ script = "script1" /\ status = "running" /\ pc < EndLine("script1")
    /\ S1At(pc).kind = "print"
    /\ Write(pc, S1At(pc).text, S1After(S1Index(pc)))

S1For ==
    /\ script = "script1" /\ status = "running" /\ pc < EndLine("script1")
    /\ S1At(pc).kind = "for"
    /\ ForHead(1, Len(S1Over(S1Index(pc))), S1After(S1Index(pc)), S1After(S1Index(pc) + 1))

S1PrintItem ==
    /\ script = "script1" /\ status = "running" /\ pc < EndLine("script1")
    /\ S1At(pc).kind = "item"
    /\ LET n == S1Index(pc) IN
       Write(pc, S1ItemText(Script1[n], ix[1], S1Over(n - 1)[ix[1]]), Script1[n - 1].line)

----------------------------------------------------------------------------
(* The runs. *)

\* the interpreter reaches the end of the file
Finish ==
    /\ status = "running" /\ pc = EndLine(script)
    /\ status' = "done"
    /\ UNCHANGED <<script, doc, hashseed, run, prev, pc, ix, out, attempts>>

NoRun == [out |-> <<>>, status |-> "none", hashseed |-> 0]

\* the same script is started once more, with a fresh sink
RunAgain ==
    /\ run = 1 /\ status # "running"
    /\ prev' = [out |-> out, status |-> status, hashseed |-> hashseed]
    /\ run' = 2
    /\ hashseed' \in Seeds
    /\ pc' = StartLine(script) /\ ix' = <<>> /\ out' = <<>> /\ attempts' = 0
    /\ status' = "running"
    /\ UNCHANGED <<script, doc>>

Programs ==
    { [script |-> "script", doc |-> d] : d \in Docs } \cup { [script |-> "script1", doc |-> NoDoc] }

Init ==
    /\ \E p \in Programs : script = p.script /\ doc = p.doc
    /\ hashseed \in Seeds
    /\ run = 1 /\ prev = NoRun
    /\ pc = StartLine(script) /\ ix = <<>> /\ out = <<>> /\ attempts = 0
    /\ status = "running"

Next ==
    \/ PrintLiteral
    \/ ForFile \/ PrintFilename \/ PrintApproach
    \/ IfKeyFeatures \/ PrintFeaturesHeading \/ ForFeature \/ PrintFeature
    \/ IfProblems \/ PrintProblemsHeading \/ ForProblem \/ PrintProblem
    \/ ForCategory \/ PrintCategory \/ ForCategoryProblem \/ PrintCategoryProblem
    \/ ForPhase \/ PrintPhase \/ ForComponent
    \/ IfDictWithFeatures \/ PrintComponentOfDict \/ ForComponentFeature \/ PrintComponentFeature
    \/ ElifList \/ PrintComponentOfList \/ ForItem \/ PrintItem
    \/ ForImprovement \/ PrintImprovement
    \/ ForIssue \/ PrintIssue
    \/ ForActionItem \/ PrintActionItem
    \/ S1Print \/ S1For \/ S1PrintItem
    \/ Finish
    \/ RunAgain

Spec == Init /\ [][Next]_vars

----------------------------------------------------------------------------
(* What the properties below read off a write. *)

RECURSIVE SkipWhile(_, _, _)
\* the first position from k on where text does not hold token c
SkipWhile(text, k, c) ==
    IF k <= Len(text) /\ text[k] = c THEN SkipWhile(text, k + 1, c) ELSE k

TextStart(text) == SkipWhile(text, 1, "\n")
\* the number of leading spaces of the line
IndentOf(text) == SkipWhile(text, TextStart(text), " ") - TextStart(text)
\* the line without leading blank lines and indentation
Content(text) == SubSeq(text, SkipWhile(text, TextStart(text), " "), Len(text))
\* the token that opens the line
MarkerOf(text) == Content(text)[1]

EndsWith(text, tail) ==
    Len(tail) <= Len(text) /\ SubSeq(text, Len(text) - Len(tail) + 1, Len(text)) = tail

\* the place in the document a write of script.py belongs to: the top-level
\* section, then the entry of each nested mapping or list
ScriptPos(line, idx) ==
    CASE line = 179 -> <<0>>
      [] line = 181 -> <<1>>
      [] line = 183 -> <<1, idx[1]>>
      [] line = 184 -> <<1, idx[1], 1>>
      [] line = 186 -> <<1, idx[1], 2>>
      [] line = 188 -> <<1, idx[1], 2, idx[2]>>
      [] line = 190 -> <<1, idx[1], 3>>
      [] line = 192 -> <<1, idx[1], 3, idx[2]>>
      [] line = 194 -> <<2>>
      [] line = 196 -> <<2, idx[1]>>
      [] line = 198 -> <<2, idx[1], idx[2]>>
      [] line = 200 -> <<3>>
      [] line = 202 -> <<3, idx[1]>>
      [] line \in {205, 209} -> <<3, idx[1], idx[2]>>
      [] line \in {207, 211} -> <<3, idx[1], idx[2], idx[3]>>
      [] line = 214 -> <<4>>
      [] line \in 215..225 -> <<4, line>>
      [] line = 228 -> <<5>>
      [] line = 239 -> <<5, idx[1]>>
      [] line = 241 -> <<6>>
      [] line = 252 -> <<6, idx[1]>>
      [] line = 254 -> <<7>>
      [] line = 265 -> <<7, idx[1]>>
      [] line = 267 -> <<8>>
      [] line \in 268..272 -> <<8, line>>

\* in script (1).py, where no loop is nested: the statement, then the entry
Pos(e) == IF script = "script" THEN ScriptPos(e.line, e.idx) ELSE <<e.line>> \o e.idx

\* p comes before q in document order: a heading before what it holds,
\* an entry before the entries declared after it
PosBefore(p, q) ==
    \/ Len(p) < Len(q) /\ SubSeq(q, 1, Len(p)) = p
    \/ \E k \in 1..Len(p) :
         /\ k <= Len(q)
         /\ p[k] < q[k]
         /\ \A j \in 1..(k - 1) : p[j] = q[j]

\* the dictionaries as written, not as a run walks them
RawFiles == doc.live_preview_analysis.current_files.items
RawCategories == doc.live_preview_analysis.identified_problems.items
RawPhases == doc.modernization_plan.items

\* the lines the for loops write as bullets
BulletLines == IF script = "script" THEN {188, 192, 198, 207, 211} ELSE {105, 124, 141, 158, 184}

Writes == 1..Len(out)

\* the run has ended: at the end of the file, or in an uncaught exception
Ended == status # "running"

\* the lines of a sequence of writes
Texts(ws) == [n \in 1..Len(ws) |-> ws[n].text]

----------------------------------------------------------------------------
(* C1: run without arguments, with every write accepted, script.py renders *)
(* all its sections and exits 0: no such run ends in an uncaught error.    *)
C1_BuiltinRunSucceeds ==
    (script = "script" /\ doc = BuiltinDoc /\ status \notin {"running", "SinkWriteFailure"})
        => (status = "done" /\ ExitCode = 0)

(* C2: a component of the plan that is neither a list nor a dict with      *)
(* 'features' ends the run in a failure; the loop never goes on to the     *)
(* next component after one.                                               *)
C2_UnrecognisedBodyFails ==
    (At("script", 203) /\ Len(ix) = 2)
        => (IsList(info) \/ (IsDict(info) /\ HasKey(info, Key("features"))))

(* C3: when a run aborts on a malformed section, nothing of that section   *)
(* is in the output, not even its title line.                              *)
C3_NothingOfOffendingSection ==
    (script = "script" /\ status = "KeyError")
        => \A n \in Writes : ~(out[n].line \in 183..192 /\ out[n].idx[1] = ix[1])

(* C4: a rejected k-th write ends the run at once with a failure; every    *)
(* write before it is in the sink, none after it is attempted, and the     *)
(* sink holds the first k-1 writes of the run in which no write fails.     *)
C4_WriteFailureAborts ==
    /\ attempts = Len(out) + (IF status = "SinkWriteFailure" THEN 1 ELSE 0)
    /\ status = "SinkWriteFailure" => ExitCode # 0
    /\ (run = 2 /\ status = "SinkWriteFailure" /\ prev.status # "SinkWriteFailure")
          => /\ attempts - 1 <= Len(prev.out)
             /\ out = SubSeq(prev.out, 1, attempts - 1)
    /\ (run = 2 /\ prev.status = "SinkWriteFailure" /\ status \in {"done", "KeyError"})
          => /\ Len(prev.out) < Len(out)
             /\ prev.out = SubSeq(out, 1, Len(prev.out))

C4_Witness ==
    /\ run = 2 /\ status = "SinkWriteFailure" /\ prev.status = "done"
    /\ attempts >= 4 /\ Len(out) = attempts - 1

Declared(e) ==
    LET i == e.idx[1]
        j == e.idx[2]
        k == e.idx[3]
    IN  CASE e.line = 183 -> RawFiles[i][1]
          [] e.line = 188 -> GetItem(RawFiles[i][2], Key("key_features")).elems[j].s
          [] e.line = 192 -> GetItem(RawFiles[i][2], Key("problems")).elems[j].s
          [] e.line = 196 -> Upper(RawCategories[i][1])
          [] e.line = 198 -> RawCategories[i][2].elems[j].s
          [] e.line = 202 -> Replace(Upper(RawPhases[i][1]), "_", " ")
          [] e.line \in {205, 209} -> RawPhases[i][2].items[j][1]
          [] e.line = 207 -> GetItem(RawPhases[i][2].items[j][2], Key("features")).elems[k].s
          [] e.line = 211 -> RawPhases[i][2].items[j][2].elems[k].s
          [] e.line = 239 -> improvements.items[i][2].s
          [] e.line = 252 -> critical_issues.elems[i].s
          [] e.line = 265 -> action_items.elems[i].s

LoopLines == {183, 188, 192, 196, 198, 202, 205, 207, 209, 211, 239, 252, 265}

\* write e ends with the string declared at its place (before the colon of a heading)
RendersDeclared(e) ==
    IF script = "script"
      THEN e.line \in LoopLines =>
             \/ EndsWith(e.text, Declared(e))
             \/ EndsWith(e.text, Declared(e) \o <<":">>)
      ELSE e.idx # <<>> =>
             LET over == Script1[S1Index(e.line) - 1].over IN
             EndsWith(e.text, IF IsDict(over) THEN over.items[e.idx[1]][2].s
                                              ELSE over.elems[e.idx[1]].s)

LinesFor(key, v) ==
    Cardinality({ n \in Writes : Content(out[n].text) = key \o <<":", " ">> \o v.s })

(* C7: a completed rendering holds exactly one line "k: v" for every       *)
(* key/value pair of the document: the scalar entries of each file record, *)
(* 'file' of an engine record, the pairs of improvements.                  *)
C7_EveryPairOneLine ==
    (script = "script" /\ status = "done") =>
        /\ \A f \in 1..Len(RawFiles) : \A p \in 1..Len(RawFiles[f][2].items) :
             LET kv == RawFiles[f][2].items[p] IN
             kv[2].t = "str" => LinesFor(kv[1], kv[2]) = 1
        /\ \A f \in 1..Len(RawPhases) : \A c \in 1..Len(RawPhases[f][2].items) :
             LET v == RawPhases[f][2].items[c][2] IN
             (IsDict(v) /\ HasKey(v, Key("file"))) => LinesFor(Key("file"), GetItem(v, Key("file"))) = 1
        /\ \A p \in 1..Len(improvements.items) :
             LinesFor(improvements.items[p][1], improvements.items[p][2]) = 1

IsBullet(e) == e.line \in BulletLines

(* C8 as stated: within one run every bullet carries the same marker,      *)
(* whatever list it belongs to.                                            *)
C8_OneMarkerPerRun ==
    Ended =>
    Cardinality({ MarkerOf(out[n].text) : n \in { w \in Writes : IsBullet(out[w]) } }) <= 1

(* C8 as amended: the marker is fixed per rendering loop, not per run: any *)
(* two bullets written by the same for loop carry the same marker.         *)
C8_OneMarkerPerLoop ==
    Ended =>
    \A loop \in BulletLines :
        Cardinality({ MarkerOf(out[n].text) : n \in { w \in Writes : out[w].line = loop } }) <= 1

C8_Witness ==
    Ended /\ \E m, n, o \in Writes :
        /\ m < n /\ n < o
        /\ IsBullet(out[m]) /\ IsBullet(out[n]) /\ IsBullet(out[o])
        /\ out[m].line = out[n].line /\ out[n].line # out[o].line
        /\ MarkerOf(out[n].text) # MarkerOf(out[o].text)

\* the headings and bullets of the loops of script.py:181-211
HeadingAndBulletLines == {181, 183, 186, 188, 190, 192, 194, 196, 198, 200, 202, 205, 207, 209, 211}

\* nesting depth: 0 for a top-level title, one more for each level below
Depth(e) == Len(Pos(e)) - 1

(* C9: a heading or bullet at nesting depth d is written with d times a    *)
(* fixed increment of leading spaces.                                      *)
C9_IndentIsDepthTimesIncrement ==
    script = "script" =>
        \E inc \in 0..8 :
            \A n \in Writes :
                out[n].line \in HeadingAndBulletLines => IndentOf(out[n].text) = Depth(out[n]) * inc

\* mapping d declares key with the empty list as its value
DeclaresEmpty(d, key) == \E n \in 1..Len(d.items) : d.items[n] = <<key, List(<<>>)>>

\* the places of the sections whose body is an empty bullet list
EmptySections ==
    IF script # "script" THEN {}
    ELSE { <<1, f, 2>> : f \in { g \in 1..Len(RawFiles) :
                DeclaresEmpty(RawFiles[g][2], Key("key_features")) } }
         \cup { <<1, f, 3>> : f \in { g \in 1..Len(RawFiles) :
                DeclaresEmpty(RawFiles[g][2], Key("problems")) } }
         \cup { <<2, c>> : c \in { g \in 1..Len(RawCategories) : RawCategories[g][2] = List(<<>>) } }
         \cup UNION { { <<3, p, c>> : c \in { g \in 1..Len(RawPhases[p][2].items) :
                          LET v == RawPhases[p][2].items[g][2] IN
                          \/ v = List(<<>>)
                          \/ IsDict(v) /\ DeclaresEmpty(v, Key("features")) } }
                      : p \in 1..Len(RawPhases) }

(* C10: a section whose body is an empty bullet list is rendered as its    *)
(* heading, once, and no bullet; the rendering then goes on with what      *)
(* follows it.                                                             *)
C10_EmptyListHeadingOnly ==
    Ended =>
    \A s \in EmptySections :
        LET heading == { n \in Writes : Pos(out[n]) = s }
            bullets == { n \in Writes : Len(Pos(out[n])) > Len(s)
                                          /\ SubSeq(Pos(out[n]), 1, Len(s)) = s }
            later == { n \in Writes : PosBefore(s, Pos(out[n])) }
        IN  /\ bullets = {}
            /\ Cardinality(heading) <= 1
            /\ later # {} => Cardinality(heading) = 1

C10_Witness ==
    /\ script = "script" /\ status = "done"
    /\ \E s \in EmptySections : s[1] = 1
    /\ \E s \in EmptySections : \E n \in Writes : Pos(out[n]) = s /\ n < Len(out)

====
